---- MODULE Spec2Model ----
(***************************************************************************)
(* The episodic binary (src/main.rs): a single entry point, main, whose    *)
(* body is one println! of a string literal.  The model runs the binary    *)
(* up to MaxRuns times in sequence.  Each run is started by the host with  *)
(* an argument list, an environment and a standard-output sink, and is     *)
(* then executed by one step, Main, which is the whole of main: the        *)
(* println! (which panics when printing to stdout fails) and the return    *)
(* to the runtime, which exits with the success status.                    *)
(***************************************************************************)
EXTENDS Integers, Sequences, FiniteSets, TLC

\* Number of times the host runs the binary, one after the other.
MaxRuns == 2
\* Bytes a failing standard-output sink takes before it reports the error.
MaxRoom == 5

\* Argument lists the host may pass (argv without the program name).
ArgLists == { <<>>, <<"--help">>, <<"--version">>, <<"foo", "bar">> }
\* Environment variables the host may set; an environment is the set of the
\* names that are set.
EnvNames == { "RUST_BACKTRACE", "EPISODIC_GREETING" }
Environments == SUBSET EnvNames
\* Standard-output sinks: one that takes every byte, and failing ones (a
\* broken pipe, a full device) that take `room` bytes and then report an error.
Sinks == { [broken |-> FALSE, room |-> 0] }
           \cup { [broken |-> TRUE, room |-> r] : r \in {0, MaxRoom} }

VARIABLES
    procs,   \* the runs so far, oldest first: one process record per run
    store    \* state that persists on the host from one run to the next

vars == <<procs, store>>

\* The string literal of the println!.
Greeting ==
    << "H", "e", "l", "l", "o", " ", "f", "r", "o", "m", " ",
       "E", "p", "i", "s", "o", "d", "i", "c", "!" >>

\* Variant: print! in place of println! (no newline appended).
format_args_plain(s) == s

\* println! formats its arguments and appends one newline.
format_args_nl(s) == s \o << "\n" >>

\* Exit status of a process whose main thread panicked.
PANIC_EXIT == 101
\* Variant: a normal return reports the failure status.
SUCCESS_as_failure == PANIC_EXIT
\* Exit status of a main that returns (): success.
SUCCESS == 0

\* Variant: the greeting is taken from the environment when it is set there.
NewProcess_configurable(args, env, sink) ==
    [ args    |-> args,
      env     |-> env,
      sink    |-> sink,
      rodata  |-> IF "EPISODIC_GREETING" \in env
                    THEN << "H", "i", "!" >>
                    ELSE << "H", "e", "l", "l", "o", " ", "f", "r", "o", "m", " ",
                            "E", "p", "i", "s", "o", "d", "i", "c", "!" >>,
      pc      |-> "NotStarted",
      stdout  |-> <<>>,
      stderr  |-> <<>>,
      status  |-> <<>>,
      effects |-> <<>> ]

\* The process image the host starts: the literal sits in read-only data,
\* nothing has been written, no exit status yet.
NewProcess(args, env, sink) ==
    [ args    |-> args,
      env     |-> env,
      sink    |-> sink,
      rodata  |-> Greeting,
      pc      |-> "NotStarted",
      stdout  |-> <<>>,
      stderr  |-> <<>>,
      status  |-> <<>>,
      effects |-> <<>> ]

\* Bytes the sink of p still takes.
Remaining(p) ==
    IF p.sink.room > Len(p.stdout) THEN p.sink.room - Len(p.stdout) ELSE 0

\* Whether writing `bytes` to the standard output of p reports an error.
WriteFails(p, bytes) == p.sink.broken /\ Remaining(p) < Len(bytes)

\* The part of `bytes` that reaches the standard output of p.
Accepted(p, bytes) ==
    IF WriteFails(p, bytes) THEN SubSeq(bytes, 1, Remaining(p)) ELSE bytes

\* What the panic hook prints on standard error; it consults RUST_BACKTRACE.
PanicMessage(env) ==
    << "thread main panicked at src/main.rs:9:5:",
       "failed printing to stdout" >>
    \o ( IF "RUST_BACKTRACE" \in env
           THEN << "stack backtrace:" >>
           ELSE << "note: run with RUST_BACKTRACE=1 environment variable to display a backtrace" >> )

\* A panic of the main thread: the hook reports on standard error and the
\* process exits with the panic status.
panic(q) ==
    [ q EXCEPT !.pc      = "Panicked",
               !.stderr  = @ \o PanicMessage(q.env),
               !.status  = << PANIC_EXIT >>,
               !.effects = @ \o << "getenv", "write_stderr" >> ]

\* Variant: the result of the write is discarded (let _ = writeln!(..)), so a
\* failed write does not panic.
print_to_ignoring(p, line) ==
    [ p EXCEPT !.stdout  = @ \o Accepted(p, line),
               !.effects = Append(@, "write_stdout") ]

\* The print of println!: one write of the line to standard output, and a
\* panic when that write reports an error.
print_to(p, line) ==
    LET q == [ p EXCEPT !.stdout  = @ \o Accepted(p, line),
                        !.effects = Append(@, "write_stdout") ]
    IN  IF WriteFails(p, line) THEN panic(q) ELSE q

\* Variant: the return leaves the process in an intermediate state, with no
\* exit status, instead of terminating it.
main_returns_lingering(q) ==
    IF q.pc = "Panicked" THEN q ELSE [ q EXCEPT !.pc = "Exiting" ]

\* main returns () to the runtime, which exits with the success status.
main_returns(q) ==
    IF q.pc = "Panicked"
      THEN q
      ELSE [ q EXCEPT !.pc = "Completed", !.status = << SUCCESS >> ]

\* Variant: main also logs a start-up diagnostic on standard error.
main_logging(p, st) ==
    LET q == print_to(p, format_args_nl(p.rodata))
        r == IF q.pc = "Panicked"
               THEN q
               ELSE [ q EXCEPT !.stderr  = Append(@, "episodic: started"),
                               !.effects = Append(@, "write_stderr") ]
    IN  [ proc |-> main_returns(r), store |-> st ]

\* Variant: main parses its arguments and answers --help with a usage line.
main_parsing(p, st) ==
    LET q    == [ p EXCEPT !.effects = Append(@, "args") ]
        line == IF Len(p.args) > 0 /\ p.args[1] = "--help"
                  THEN << "u", "s", "a", "g", "e", "\n" >>
                  ELSE format_args_nl(p.rodata)
    IN  [ proc |-> main_returns(print_to(q, line)), store |-> st ]

\* Variant: main keeps a run counter in persistent state and greets only on
\* the first run.
main_counting(p, st) ==
    LET line == IF Len(st) = 0 THEN format_args_nl(p.rodata) ELSE << "\n" >>
    IN  [ proc  |-> main_returns(print_to(p, line)),
          store |-> Append(st, "run") ]

\* Variant: main prints the greeting twice.
main_twice(p, st) ==
    LET q == print_to(p, format_args_nl(p.rodata))
        r == IF q.pc = "Panicked" THEN q
                                  ELSE print_to(q, format_args_nl(p.rodata))
    IN  [ proc |-> main_returns(r), store |-> st ]

\* fn main: one println! of the literal, then return.  It is given the
\* process and the persistent state of the host, and yields both.
main(p, st) ==
    [ proc  |-> main_returns(print_to(p, format_args_nl(p.rodata))),
      store |-> st ]

\* Variant: main first waits for standard output to become writable.
MainEnabled_waiting(p) == p.pc = "NotStarted" /\ ~p.sink.broken

\* main runs as soon as the process has been started; it waits on nothing.
MainEnabled(p) == p.pc = "NotStarted"

Init ==
    /\ procs = <<>>
    /\ store = <<>>

\* The host starts the next run once the earlier ones have terminated.
Exec(args, env, sink) ==
    /\ Len(procs) < MaxRuns
    /\ \A k \in 1..Len(procs) : procs[k].pc # "NotStarted"
    /\ procs' = Append(procs, NewProcess(args, env, sink))
    /\ UNCHANGED store

\* The started process executes main.
Main ==
    \E k \in 1..Len(procs) :
        /\ MainEnabled(procs[k])
        /\ LET r == main(procs[k], store)
           IN  /\ procs' = [ procs EXCEPT ![k] = r.proc ]
               /\ store' = r.store

Next ==
    \/ \E args \in ArgLists, env \in Environments, sink \in Sinks :
           Exec(args, env, sink)
    \/ Main

Spec == Init /\ [][Next]_vars

\* The operating system schedules a started process: main is not starved.
FairSpec == Spec /\ WF_vars(Main)

(***************************************************************************)
(* Vocabulary of the properties.                                           *)
(***************************************************************************)

\* The greeting and the line the documentation promises, written out byte
\* by byte.
HelloText ==
    << "H", "e", "l", "l", "o", " ", "f", "r", "o", "m", " ",
       "E", "p", "i", "s", "o", "d", "i", "c", "!" >>
HelloLine == HelloText \o << "\n" >>

Runs == 1..Len(procs)
Terminated(p) == p.pc # "NotStarted"
\* The standard output given to p takes the whole line.
SinkTakesLine(p) == ~p.sink.broken \/ p.sink.room >= Len(HelloLine)
IsPrefix(s, t) == Len(s) <= Len(t) /\ SubSeq(t, 1, Len(s)) = s
IsProperPrefix(s, t) == IsPrefix(s, t) /\ Len(s) < Len(t)
Count(seq, x) == Cardinality({ i \in 1..Len(seq) : seq[i] = x })
Ops(p) == { p.effects[i] : i \in 1..Len(p.effects) }

\* One step of the lifecycle over the given states, `terminal` being final:
\* a run leaves NotStarted at most once, straight into a terminal state, and
\* a terminated run never changes again; a new run begins in NotStarted.
LifecycleStep(states, terminal) ==
    /\ Len(procs') >= Len(procs)
    /\ \A k \in 1..Len(procs') : procs'[k].pc \in states
    /\ \A k \in (Len(procs) + 1)..Len(procs') : procs'[k].pc = "NotStarted"
    /\ \A k \in Runs :
          /\ procs[k].pc \in terminal => procs'[k] = procs[k]
          /\ procs[k].pc = "NotStarted" =>
                \/ procs'[k] = procs[k]
                \/ procs'[k].pc \in terminal

(***************************************************************************)
(* C1                                                                      *)
(***************************************************************************)

\* C1 as stated: for every invocation, whatever its arguments and
\* environment, standard output of the finished process is exactly the
\* greeting followed by one newline.
C1_StdoutAlwaysGreeting ==
    \A k \in Runs : Terminated(procs[k]) => procs[k].stdout = HelloLine

\* C1, amended: for every invocation whose standard output takes the write,
\* whatever its arguments and environment, standard output of the finished
\* process is exactly the greeting followed by one newline; when the write
\* fails, standard output holds a proper prefix of that line and nothing else.
C1_StdoutGreetingWhenWritten ==
    \A k \in Runs :
        Terminated(procs[k]) =>
            IF SinkTakesLine(procs[k])
              THEN procs[k].stdout = HelloLine
              ELSE IsProperPrefix(procs[k].stdout, HelloLine)

C1_Witness ==
    \E k \in Runs :
        /\ Terminated(procs[k])
        /\ procs[k].args = << "foo", "bar" >>
        /\ procs[k].env = EnvNames
        /\ SinkTakesLine(procs[k])
        /\ procs[k].stdout = HelloLine

(***************************************************************************)
(* C2                                                                      *)
(***************************************************************************)

\* C2 as stated: in every reachable state, also after a failed write to
\* standard output, standard error is empty.
C2_StderrAlwaysEmpty ==
    \A k \in Runs : procs[k].stderr = <<>>

\* C2, amended: for all invocations whose write to standard output
\* succeeds, zero bytes are written to standard error; standard error is
\* written only by the panic that follows a failed write.
C2_StderrEmptyUnlessWriteFailed ==
    \A k \in Runs :
        \/ /\ procs[k].stderr = <<>>
           /\ "write_stderr" \notin Ops(procs[k])
        \/ /\ procs[k].pc = "Panicked"
           /\ ~SinkTakesLine(procs[k])

C2_Witness ==
    \E k \in Runs :
        /\ procs[k].pc = "Completed"
        /\ SinkTakesLine(procs[k])
        /\ Len(procs[k].stdout) > 0
        /\ procs[k].stderr = <<>>

(***************************************************************************)
(* C3                                                                      *)
(***************************************************************************)

\* C3: every invocation that completes normally (main returns after the
\* println!) exits with status 0 and no other.
C3_NormalExitIsZero ==
    \A k \in Runs : procs[k].pc = "Completed" => procs[k].status = << 0 >>

C3_Witness ==
    \E k \in Runs : procs[k].pc = "Completed" /\ procs[k].status = << 0 >>

(***************************************************************************)
(* C4                                                                      *)
(***************************************************************************)

\* C4 as stated: two invocations that differ only in arguments or
\* environment have identical standard output, standard error and exit
\* status, and no argument or environment variable is read.
C4_FullyInsensitive ==
    /\ \A i, j \in Runs :
          ( /\ Terminated(procs[i])
            /\ Terminated(procs[j])
            /\ procs[i].sink = procs[j].sink )
          => /\ procs[i].stdout = procs[j].stdout
             /\ procs[i].stderr = procs[j].stderr
             /\ procs[i].status = procs[j].status
    /\ \A k \in Runs : Ops(procs[k]) \cap { "args", "getenv" } = {}

\* C4, amended: two invocations that differ only in arguments or
\* environment have identical standard output and exit status, and, when
\* the write to standard output succeeds, identical (empty) standard error;
\* main reads no argument and no environment variable.  Only the panic that
\* follows a failed write consults the environment (RUST_BACKTRACE), which
\* changes the text on standard error.
C4_InsensitiveButPanicText ==
    /\ \A i, j \in Runs :
          ( /\ Terminated(procs[i])
            /\ Terminated(procs[j])
            /\ procs[i].sink = procs[j].sink )
          => /\ procs[i].stdout = procs[j].stdout
             /\ procs[i].status = procs[j].status
             /\ procs[i].pc = procs[j].pc
             /\ SinkTakesLine(procs[i]) =>
                   /\ procs[i].stderr = procs[j].stderr
                   /\ procs[i].effects = procs[j].effects
             /\ procs[i].env = procs[j].env =>
                   procs[i] = [ procs[j] EXCEPT !.args = procs[i].args ]
    /\ \A k \in Runs :
          /\ "args" \notin Ops(procs[k])
          /\ "getenv" \in Ops(procs[k]) => procs[k].pc = "Panicked"

C4_Witness ==
    \E i, j \in Runs :
        /\ Terminated(procs[i])
        /\ Terminated(procs[j])
        /\ procs[i].sink = procs[j].sink
        /\ procs[i].args = <<>>
        /\ procs[j].args = << "--help" >>
        /\ procs[i].env # procs[j].env
        /\ procs[i].stdout = procs[j].stdout
        /\ procs[i].stdout # <<>>

(***************************************************************************)
(* C5                                                                      *)
(***************************************************************************)

\* C5 as stated: N runs in sequence give N identical greeting lines, no
\* run touches persistent state, and the result of a run does not depend
\* on its position in the sequence.
C5_EveryRunGreets ==
    /\ store = <<>>
    /\ \A k \in Runs : Terminated(procs[k]) => procs[k].stdout = HelloLine
    /\ \A i, j \in Runs :
          ( /\ Terminated(procs[i])
            /\ Terminated(procs[j])
            /\ procs[i].args = procs[j].args
            /\ procs[i].env = procs[j].env
            /\ procs[i].sink = procs[j].sink )
          => procs[i] = procs[j]

\* C5, amended: N runs in sequence, each with a standard output that takes
\* the write, give N identical greeting lines; in every case no run reads
\* or writes persistent state, and the result of the k-th run depends on
\* its own inputs only, not on k or on the earlier runs.
C5_RunsIndependent ==
    /\ store = <<>>
    /\ \A k \in Runs :
          ( Terminated(procs[k]) /\ SinkTakesLine(procs[k]) )
          => procs[k].stdout = HelloLine
    /\ \A i, j \in Runs :
          ( /\ Terminated(procs[i])
            /\ Terminated(procs[j])
            /\ procs[i].args = procs[j].args
            /\ procs[i].env = procs[j].env
            /\ procs[i].sink = procs[j].sink )
          => procs[i] = procs[j]

C5_Witness ==
    /\ Len(procs) >= 2
    /\ store = <<>>
    /\ \A k \in Runs :
          /\ procs[k].pc = "Completed"
          /\ procs[k].stdout = HelloLine
    /\ procs[1] = procs[2]

(***************************************************************************)
(* C6                                                                      *)
(***************************************************************************)

\* C6 as stated: the lifecycle has exactly the states Not Started and
\* Completed; the only transition is Not Started -> Completed, taken at
\* most once, with no intermediate state and no retry; Completed is final.
C6_TwoStates ==
    [][ LifecycleStep({ "NotStarted", "Completed" }, { "Completed" }) ]_vars

\* C6, amended: the lifecycle has the states Not Started and Completed and,
\* for a run whose write to standard output fails, the terminal state
\* Panicked.  A run leaves Not Started at most once, in one step, into
\* Completed or Panicked; there is no intermediate state and no retry, and
\* both are final: standard output and the exit status never change again.
C6_Lifecycle ==
    [][ LifecycleStep({ "NotStarted", "Completed", "Panicked" },
                      { "Completed", "Panicked" }) ]_vars

C6_Witness ==
    \E i, j \in Runs :
        /\ i < j
        /\ procs[i].pc = "Completed"
        /\ procs[i].status # <<>>
        /\ procs[j].pc = "NotStarted"

(***************************************************************************)
(* C7                                                                      *)
(***************************************************************************)

\* C7 as stated: a started process eventually reaches Completed.
C7_ReachesCompleted ==
    \A k \in 1..MaxRuns :
        (Len(procs) >= k) ~> (Len(procs) >= k /\ procs[k].pc = "Completed")

\* C7, amended: a started process, if not killed externally, eventually
\* terminates: it reaches Completed when the write to standard output
\* succeeds and Panicked when it fails.  The step out of Not Started is
\* enabled unconditionally, so weak fairness of that step is enough.
C7_Terminates ==
    /\ [](\A k \in Runs : procs[k].pc = "NotStarted" => ENABLED Main)
    /\ \A k \in 1..MaxRuns :
          (Len(procs) >= k) ~>
              ( /\ Len(procs) >= k
                /\ procs[k].pc \in { "Completed", "Panicked" }
                /\ procs[k].status # <<>> )

C7_Witness ==
    /\ Len(procs) = MaxRuns
    /\ \A k \in Runs : procs[k].pc \in { "Completed", "Panicked" }
    /\ \E k \in Runs : procs[k].sink.broken

(***************************************************************************)
(* C8                                                                      *)
(***************************************************************************)

\* C8 as stated: a run performs exactly one write to standard output and
\* nothing else: never more than one, one at completion, and no write to
\* standard error nor any other access.
C8_OnlyOneStdoutWrite ==
    \A k \in Runs :
        /\ Count(procs[k].effects, "write_stdout") <= 1
        /\ Terminated(procs[k]) => procs[k].effects = << "write_stdout" >>

\* C8, amended: a run performs exactly one write to standard output: never
\* more than one, and one at termination.  When that write succeeds the run
\* has no other effect; when it fails, the panic reads RUST_BACKTRACE and
\* writes its message to standard error, and nothing else happens.
C8_OneStdoutWrite ==
    \A k \in Runs :
        /\ Count(procs[k].effects, "write_stdout") <= 1
        /\ ~Terminated(procs[k]) => procs[k].effects = <<>>
        /\ Terminated(procs[k]) =>
              procs[k].effects =
                  IF SinkTakesLine(procs[k])
                    THEN << "write_stdout" >>
                    ELSE << "write_stdout", "getenv", "write_stderr" >>

C8_Witness ==
    \E k \in Runs :
        /\ procs[k].pc = "Completed"
        /\ procs[k].effects = << "write_stdout" >>

(***************************************************************************)
(* C9                                                                      *)
(***************************************************************************)

\* C9: when the write to standard output fails, the program neither
\* inspects nor recovers from the failure: the write is not retried, the
\* greeting goes nowhere else, the process is ended by the runtime (a
\* panic) and does not report normal completion with exit status 0.
C9_FailedWriteAborts ==
    \A k \in Runs :
        ( Terminated(procs[k]) /\ ~SinkTakesLine(procs[k]) ) =>
            /\ procs[k].pc = "Panicked"
            /\ Len(procs[k].status) = 1
            /\ procs[k].status # << 0 >>
            /\ Count(procs[k].effects, "write_stdout") = 1
            /\ IsProperPrefix(procs[k].stdout, HelloLine)

C9_Witness ==
    \E k \in Runs :
        /\ procs[k].pc = "Panicked"
        /\ ~SinkTakesLine(procs[k])
        /\ Len(procs[k].stdout) = MaxRoom
        /\ procs[k].status = << 101 >>

(***************************************************************************)
(* C10                                                                     *)
(***************************************************************************)

\* C10: in every reachable state of every invocation the greeting string is
\* the literal Hello from Episodic!; no step changes it and nothing given
\* from outside (arguments, environment) configures it.
C10_GreetingConstant ==
    \A k \in Runs : procs[k].rodata = HelloText

C10_Witness ==
    \E k \in Runs :
        /\ Terminated(procs[k])
        /\ "EPISODIC_GREETING" \in procs[k].env
        /\ procs[k].args # <<>>
        /\ procs[k].rodata = HelloText

====
